---- MODULE Spec2Model ----
(***************************************************************************)
(* BrandSnap, src-tauri/src/lib.rs: the analyze_page command (rendering    *)
(* pass + raw-markup pass), the complete_analysis callback, the            *)
(* server_side_scrape extractor and the image/text merge.                  *)
(*                                                                         *)
(* Strings are sequences of one-character strings, so that prefix tests,   *)
(* splitting and the regex replacements of normalize_image_url are         *)
(* computed character by character as the code computes them.              *)
(***************************************************************************)
EXTENDS Integers, Sequences, FiniteSets, TLC

(***************************************************************************)
(* Characters and string helpers (std::str methods used by lib.rs)         *)
(***************************************************************************)
Digit == {"0", "1", "2", "3", "4", "5", "6", "7", "8", "9"}

LowerSeq ==
  <<"a", "b", "c", "d", "e", "f", "g", "h", "i", "j", "k", "l", "m",
    "n", "o", "p", "q", "r", "s", "t", "u", "v", "w", "x", "y", "z">>

UpperSeq ==
  <<"A", "B", "C", "D", "E", "F", "G", "H", "I", "J", "K", "L", "M",
    "N", "O", "P", "Q", "R", "S", "T", "U", "V", "W", "X", "Y", "Z">>

Range(f) == {f[k] : k \in DOMAIN f}

\* [a-zA-Z] of the regex patterns
Alpha == Range(LowerSeq) \cup Range(UpperSeq)

\* characters whose UTF-8 encoding takes two bytes (str::len counts bytes)
TwoByte == {"U+00E9", "U+00FC"}

Min(a, b) == IF a < b THEN a ELSE b

\* str::len(): the length in bytes
ByteLen(s) == Len(s) + Cardinality({k \in DOMAIN s : s[k] \in TwoByte})

\* char::to_lowercase on one character
LowerChar(c) ==
  IF c \in Range(UpperSeq)
  THEN LowerSeq[CHOOSE k \in DOMAIN UpperSeq : UpperSeq[k] = c]
  ELSE c

\* str::to_lowercase
ToLower(s) == [k \in DOMAIN s |-> LowerChar(s[k])]

\* the literal lit occurs in s at position i
HasAt(s, i, lit) ==
  /\ i >= 1
  /\ i + Len(lit) - 1 <= Len(s)
  /\ SubSeq(s, i, i + Len(lit) - 1) = lit

\* str::starts_with
StartsWith(s, lit) == HasAt(s, 1, lit)

\* str::ends_with
EndsWith(s, lit) == HasAt(s, Len(s) - Len(lit) + 1, lit)

\* str::contains
Contains(s, lit) == \E i \in 1..(Len(s) + 1) : HasAt(s, i, lit)

\* s.split(c).next(): the text before the first c (all of s if there is none)
TakeUntil(s, c) ==
  IF \E k \in DOMAIN s : s[k] = c
  THEN SubSeq(s, 1, (CHOOSE k \in DOMAIN s :
                       s[k] = c /\ \A j \in 1..(k - 1) : s[j] # c) - 1)
  ELSE s

\* s.split(c), every field, in order
RECURSIVE SplitBy(_, _)
SplitBy(s, c) ==
  IF \E k \in DOMAIN s : s[k] = c
  THEN LET h == TakeUntil(s, c)
       IN  <<h>> \o SplitBy(SubSeq(s, Len(h) + 2, Len(s)), c)
  ELSE <<s>>

\* str::trim(): leading and trailing white space removed
RECURSIVE Trim(_)
Trim(s) ==
  IF s = <<>> THEN s
  ELSE IF s[1] = " " THEN Trim(Tail(s))
  ELSE IF s[Len(s)] = " " THEN Trim(SubSeq(s, 1, Len(s) - 1))
  ELSE s

\* str::trim_matches(c)
RECURSIVE TrimMatches(_, _)
TrimMatches(s, c) ==
  IF s = <<>> THEN s
  ELSE IF s[1] = c THEN TrimMatches(Tail(s), c)
  ELSE IF s[Len(s)] = c THEN TrimMatches(SubSeq(s, 1, Len(s) - 1), c)
  ELSE s

\* the number of consecutive digits of s from position i on
DigitRun(s, i) ==
  CHOOSE n \in 0..Len(s) :
    /\ \A j \in i..(i + n - 1) : j \in DOMAIN s /\ s[j] \in Digit
    /\ (i + n \in DOMAIN s) => s[i + n] \notin Digit

\* the number of consecutive letters of s from position i on
AlphaRun(s, i) ==
  CHOOSE n \in 0..Len(s) :
    /\ \A j \in i..(i + n - 1) : j \in DOMAIN s /\ s[j] \in Alpha
    /\ (i + n \in DOMAIN s) => s[i + n] \notin Alpha

(***************************************************************************)
(* normalize_image_url (lib.rs 364-388)                                    *)
(***************************************************************************)
\* (\.[a-zA-Z]+)$ matches at position p
ExtAt(s, p) ==
  /\ p \in DOMAIN s
  /\ s[p] = "."
  /\ AlphaRun(s, p + 1) >= 1
  /\ p + AlphaRun(s, p + 1) = Len(s)

SizeNames ==
  << <<"s", "m", "a", "l", "l">>,
     <<"m", "e", "d", "i", "u", "m">>,
     <<"l", "a", "r", "g", "e">>,
     <<"t", "h", "u", "m", "b">>,
     <<"t", "h", "u", "m", "b", "n", "a", "i", "l">>,
     <<"s", "c", "a", "l", "e", "d">>,
     <<"p", "r", "e", "v", "i", "e", "w">>,
     <<"m", "i", "n", "i">>,
     <<"f", "u", "l", "l">>,
     <<"o", "r", "i", "g", "i", "n", "a", "l">> >>

\* the number of patterns in the table
NPatterns == 5

\* The number of characters pattern k deletes when it matches at position i
\* of s (0: no match at i).  Patterns 3-5 end in a captured extension that
\* the replacement puts back, so only the part before it is deleted.
PatternMatch(k, s, i) ==
  IF i \notin DOMAIN s THEN 0
  ELSE CASE k = 1 ->
         \* [-_](cc_ft_|ft_)\d{2,4}
         LET a == IF HasAt(s, i + 1, <<"c", "c", "_", "f", "t", "_">>) THEN 6
                  ELSE IF HasAt(s, i + 1, <<"f", "t", "_">>) THEN 3
                  ELSE 0
             d == DigitRun(s, i + 1 + a)
         IN  IF s[i] \in {"-", "_"} /\ a > 0 /\ d >= 2
             THEN 1 + a + Min(d, 4) ELSE 0
       [] k = 2 ->
         \* -\d{2,4}x\d{2,4}
         LET d1 == DigitRun(s, i + 1)
             d2 == DigitRun(s, i + 2 + d1)
         IN  IF /\ s[i] = "-"
                /\ d1 >= 2 /\ d1 <= 4
                /\ HasAt(s, i + 1 + d1, <<"x">>)
                /\ d2 >= 2
             THEN 2 + d1 + Min(d2, 4) ELSE 0
       [] k = 3 ->
         \* [-_]\d{3,4}(\.[a-zA-Z]+)$
         LET d == DigitRun(s, i + 1)
         IN  IF s[i] \in {"-", "_"} /\ d \in {3, 4} /\ ExtAt(s, i + 1 + d)
             THEN 1 + d ELSE 0
       [] k = 4 ->
         \* @\dx(\.[a-zA-Z]+)$
         IF /\ s[i] = "@"
            /\ DigitRun(s, i + 1) >= 1
            /\ HasAt(s, i + 2, <<"x">>)
            /\ ExtAt(s, i + 3)
         THEN 3 ELSE 0
       [] OTHER ->
         \* [-_](small|medium|...|original)(\.[a-zA-Z]+)$
         IF s[i] \in {"-", "_"}
            /\ \E n \in DOMAIN SizeNames :
                 HasAt(s, i + 1, SizeNames[n]) /\ ExtAt(s, i + 1 + Len(SizeNames[n]))
         THEN 1 + Len(SizeNames[CHOOSE n \in DOMAIN SizeNames :
                        HasAt(s, i + 1, SizeNames[n])
                        /\ ExtAt(s, i + 1 + Len(SizeNames[n]))])
         ELSE 0

\* re.replace(&norm, replacement): the leftmost match only
ReplaceFirst(k, s) ==
  IF \E i \in DOMAIN s : PatternMatch(k, s, i) > 0
  THEN LET i == CHOOSE p \in DOMAIN s :
                  /\ PatternMatch(k, s, p) > 0
                  /\ \A q \in 1..(p - 1) : PatternMatch(k, s, q) = 0
       IN  SubSeq(s, 1, i - 1) \o SubSeq(s, i + PatternMatch(k, s, i), Len(s))
  ELSE s

\* for (pattern, replacement) in &patterns { norm = re.replace(..) }
RECURSIVE ApplyPatterns(_, _)
ApplyPatterns(k, s) ==
  IF k > NPatterns THEN s ELSE ApplyPatterns(k + 1, ReplaceFirst(k, s))

normalize_image_url(u) ==
  ApplyPatterns(1, TakeUntil(TakeUntil(u, "?"), "#"))

(***************************************************************************)
(* URLs (url::Url as lib.rs uses it: parse and join)                       *)
(***************************************************************************)
SchemeSep == <<":", "/", "/">>

DataScheme == <<"d", "a", "t", "a", ":">>

\* the scheme of an absolute reference, <<>> when it has none
SchemeOf(s) ==
  LET h == TakeUntil(s, ":")
  IN  IF Len(h) < Len(s) /\ h # <<>> /\ \A k \in DOMAIN h : h[k] \in Alpha
      THEN h ELSE <<>>

\* Url::parse(s) succeeds: an absolute URL (a relative one has no base here)
ParseOk(s) ==
  \/ StartsWith(s, DataScheme)
  \/ SchemeOf(s) # <<>> /\ HasAt(s, Len(SchemeOf(s)) + 1, SchemeSep)
                        /\ Len(s) > Len(SchemeOf(s)) + 3

\* scheme://host of a hierarchical URL
OriginOf(u) ==
  LET pre  == Len(SchemeOf(u)) + 3
      rest == SubSeq(u, pre + 1, Len(u))
  IN  SubSeq(u, 1, pre) \o TakeUntil(rest, "/")

\* the path of a hierarchical URL up to and including its last "/"
DirOf(u) ==
  LET path == SubSeq(TakeUntil(TakeUntil(u, "?"), "#"), Len(OriginOf(u)) + 1, Len(u))
      cut  == {k \in DOMAIN path : path[k] = "/"}
  IN  IF cut = {} THEN <<"/">>
      ELSE SubSeq(path, 1, CHOOSE k \in cut : \A j \in cut : j <= k)

\* base_url.join(r).map(|u| u.to_string()): an absolute reference stands,
\* "//host/.." takes the base's scheme, "/path" the base's origin, anything
\* else is resolved in the base's directory.
UrlJoin(base, r) ==
  IF ParseOk(r) THEN r
  ELSE IF StartsWith(r, <<"/", "/">>) THEN SchemeOf(base) \o <<":">> \o r
  ELSE IF StartsWith(r, <<"/">>) THEN OriginOf(base) \o r
  ELSE OriginOf(base) \o DirOf(base) \o r

(***************************************************************************)
(* server_side_scrape (lib.rs 73-300).  A fetched document is the sequence *)
(* of its elements in document order; each element carries the attributes *)
(* its strategy reads.                                                     *)
(***************************************************************************)
RECURSIVE Concat(_)
Concat(ss) == IF ss = <<>> THEN <<>> ELSE Head(ss) \o Concat(Tail(ss))

ImageInfo(src, alt, width, height) ==
  [src |-> src, alt |-> alt, width |-> width, height |-> height]

OfKind(doc, kind) == SelectSeq(doc, LAMBDA el : el.kind = kind)

\* lib.rs 124-135: the source attributes of one <img>
ImgAttrCands(el, base) ==
  LET clean(v) == TakeUntil(Trim(TakeUntil(v, ",")), " ")
      full(v)  == UrlJoin(base, clean(v))
      ok(v)    == clean(v) # <<>> /\ ~StartsWith(full(v), DataScheme)
      kept     == SelectSeq(el.vals, ok)
  IN  [k \in DOMAIN kept |-> ImageInfo(full(kept[k]), el.alt, el.width, el.height)]

\* lib.rs 138-149 and 156-167: every entry of a srcset
SrcsetCands(srcset, alt, base) ==
  LET src(e)  == TakeUntil(Trim(e), " ")
      full(e) == UrlJoin(base, src(e))
      ok(e)   == src(e) # <<>> /\ ~StartsWith(full(e), DataScheme)
      kept    == SelectSeq(SplitBy(srcset, ","), ok)
  IN  [k \in DOMAIN kept |-> ImageInfo(full(kept[k]), alt, 0, 0)]

\* lib.rs 112-151
ImgCands(doc, base) ==
  LET els == OfKind(doc, "img")
  IN  Concat([k \in DOMAIN els |->
                ImgAttrCands(els[k], base)
                \o SrcsetCands(els[k].srcset, els[k].alt, base)])

\* lib.rs 153-169
SourceCands(doc, base) ==
  LET els == OfKind(doc, "source")
  IN  Concat([k \in DOMAIN els |-> SrcsetCands(els[k].srcset, "", base)])

ImageExts ==
  << <<".", "j", "p", "g">>, <<".", "j", "p", "e", "g">>, <<".", "p", "n", "g">>,
     <<".", "g", "i", "f">>, <<".", "w", "e", "b", "p">>, <<".", "s", "v", "g">>,
     <<".", "a", "v", "i", "f">> >>

\* lib.rs 171-186
LinkCands(doc, base) ==
  LET isImg(el) == \E n \in DOMAIN ImageExts : EndsWith(ToLower(el.href), ImageExts[n])
      els == SelectSeq(OfKind(doc, "a"), isImg)
  IN  [k \in DOMAIN els |-> ImageInfo(UrlJoin(base, els[k].href), "", 0, 0)]

\* lib.rs 188-199
MetaCands(doc, base) ==
  LET els == SelectSeq(OfKind(doc, "meta"), LAMBDA el : el.hasContent)
  IN  [k \in DOMAIN els |->
         ImageInfo(UrlJoin(base, els[k].content), "Social preview", 0, 0)]

\* lib.rs 201-212
VideoCands(doc, base) ==
  LET els == OfKind(doc, "video")
  IN  [k \in DOMAIN els |->
         ImageInfo(UrlJoin(base, els[k].poster), "Video poster", 0, 0)]

\* s.split(lit) for a literal of several characters
RECURSIVE SplitByLit(_, _)
SplitByLit(s, lit) ==
  IF Contains(s, lit) /\ lit # <<>>
  THEN LET i == CHOOSE p \in DOMAIN s :
                  HasAt(s, p, lit) /\ \A q \in 1..(p - 1) : ~HasAt(s, q, lit)
       IN  <<SubSeq(s, 1, i - 1)>> \o SplitByLit(SubSeq(s, i + Len(lit), Len(s)), lit)
  ELSE <<s>>

\* s.replace(from, to)
RECURSIVE ReplaceAll(_, _, _)
ReplaceAll(s, from, to) ==
  IF Contains(s, from) /\ from # <<>>
  THEN LET i == CHOOSE p \in DOMAIN s :
                  HasAt(s, p, from) /\ \A q \in 1..(p - 1) : ~HasAt(s, q, from)
       IN  SubSeq(s, 1, i - 1) \o to \o ReplaceAll(SubSeq(s, i + Len(from), Len(s)), from, to)
  ELSE s

Background == <<"b", "a", "c", "k", "g", "r", "o", "u", "n", "d">>

Gradient == <<"g", "r", "a", "d", "i", "e", "n", "t">>

UrlOpen == <<"u", "r", "l", "(">>

\* lib.rs 220-232: the url(...) arguments of one style attribute
StyleAttrCands(style, base) ==
  LET parts == Tail(SplitByLit(style, UrlOpen))
      src(p) == TrimMatches(TrimMatches(Trim(TakeUntil(p, ")")), "\""), "'")
      ok(p) == /\ \E k \in DOMAIN p : p[k] = ")"
               /\ src(p) # <<>>
               /\ ~StartsWith(src(p), DataScheme)
               /\ ~Contains(src(p), Gradient)
      kept == SelectSeq(parts, ok)
  IN  IF Contains(style, Background)
      THEN [k \in DOMAIN kept |-> ImageInfo(UrlJoin(base, src(kept[k])), "", 0, 0)]
      ELSE <<>>

\* lib.rs 214-236
StyleCands(doc, base) ==
  LET els == OfKind(doc, "style")
  IN  Concat([k \in DOMAIN els |-> StyleAttrCands(els[k].style, base)])

ScriptExts ==
  << <<".", "j", "p", "g">>, <<".", "j", "p", "e", "g">>, <<".", "p", "n", "g">>,
     <<".", "g", "i", "f">>, <<".", "w", "e", "b", "p">>, <<".", "a", "v", "i", "f">>,
     <<".", "s", "v", "g">> >>

\* the script-text and token length limits of lib.rs 243 and 248
ScriptMinLen == 10

ScriptMaxLen == 500000

TokenMinLen == 10

TokenMaxLen == 2000

\* lib.rs 246-266: the quoted tokens of one script text
ScriptTextCands(text, base) ==
  LET tokens == SplitBy(text, "\"") \o SplitBy(text, "'")
      trimmed(p) == ReplaceAll(Trim(p), <<"\\", "/">>, <<"/">>)
      isHttp(t) == StartsWith(t, <<"h", "t", "t", "p">>) \/ StartsWith(t, <<"/", "/">>)
      full_url(t) == IF StartsWith(t, <<"/", "/">>)
                     THEN <<"h", "t", "t", "p", "s", ":">> \o t
                     ELSE IF isHttp(t) THEN t
                     ELSE UrlJoin(base, t)
      ok(p) == LET t == trimmed(p)
               IN  /\ ByteLen(t) > TokenMinLen /\ ByteLen(t) < TokenMaxLen
                   /\ \E n \in DOMAIN ScriptExts : Contains(ToLower(t), ScriptExts[n])
                   /\ isHttp(t) \/ StartsWith(t, <<"/">>)
                   /\ full_url(t) # <<>>
      kept == SelectSeq(tokens, ok)
  IN  IF ByteLen(text) < ScriptMinLen \/ ByteLen(text) > ScriptMaxLen
      THEN <<>>
      ELSE [k \in DOMAIN kept |-> ImageInfo(full_url(trimmed(kept[k])), "", 0, 0)]

\* lib.rs 238-268
ScriptCands(doc, base) ==
  LET els == OfKind(doc, "script")
  IN  Concat([k \in DOMAIN els |-> ScriptTextCands(els[k].text, base)])

\* every candidate, in the order the strategies run
ImageCands(doc, base) ==
  ImgCands(doc, base) \o SourceCands(doc, base) \o LinkCands(doc, base)
  \o MetaCands(doc, base) \o VideoCands(doc, base) \o StyleCands(doc, base)
  \o ScriptCands(doc, base)

\* if !seen_urls.contains(&full_url) { seen_urls.insert(..); images.push(..) }
RECURSIVE PushUnseen(_, _, _)
PushUnseen(cands, images, seen_urls) ==
  IF cands = <<>> THEN images
  ELSE IF Head(cands).src \in seen_urls
       THEN PushUnseen(Tail(cands), images, seen_urls)
       ELSE PushUnseen(Tail(cands), Append(images, Head(cands)),
                       seen_urls \cup {Head(cands).src})

\* mutant: the last n elements are kept instead of the first n
Truncate_Last(v, n) == SubSeq(v, Len(v) - Min(Len(v), n) + 1, Len(v))

\* Vec::truncate(n)
Truncate(v, n) == SubSeq(v, 1, Min(Len(v), n))

\* lib.rs 296-297 and 428-429
ResultCap == 500

\* lib.rs 276
text_tags == <<"h1", "h2", "h3", "h4", "h5", "h6", "p", "li", "blockquote", "figcaption">>

\* tag_name.to_uppercase() of each entry of text_tags
UpperTags == <<"H1", "H2", "H3", "H4", "H5", "H6", "P", "LI", "BLOCKQUOTE", "FIGCAPTION">>

\* el.text().collect::<Vec<_>>().join(" ")
RECURSIVE JoinSpace(_)
JoinSpace(nodes) ==
  IF nodes = <<>> THEN <<>>
  ELSE IF Len(nodes) = 1 THEN nodes[1]
  ELSE nodes[1] \o <<" ">> \o JoinSpace(Tail(nodes))

TextBlock(tag, text) == [tag |-> tag, text |-> text]

\* lib.rs 278-291: the text candidates, tag by tag, before the length and
\* seen_text tests
TextCands(doc) ==
  Concat([t \in DOMAIN text_tags |->
            LET els == OfKind(doc, text_tags[t])
            IN  [k \in DOMAIN els |->
                   TextBlock(UpperTags[t], Trim(JoinSpace(els[k].nodes)))]])

\* the shortest text kept, in bytes (lib.rs 282)
MinTextLen == 3

\* if text.len() >= 3 && !seen_text.contains(&text) { .. push .. }
RECURSIVE PushText(_, _, _)
PushText(cands, blocks, seen_text) ==
  IF cands = <<>> THEN blocks
  ELSE IF ByteLen(Head(cands).text) >= MinTextLen /\ Head(cands).text \notin seen_text
       THEN PushText(Tail(cands), Append(blocks, Head(cands)),
                     seen_text \cup {Head(cands).text})
       ELSE PushText(Tail(cands), blocks, seen_text)

\* Ok((images, text_blocks)) of server_side_scrape for a fetched document
server_side_scrape(doc, base) ==
  [images |-> Truncate(PushUnseen(ImageCands(doc, base), <<>>, {}), ResultCap),
   text   |-> Truncate(PushText(TextCands(doc), <<>>, {}), ResultCap)]

(***************************************************************************)
(* The merge of analyze_page (lib.rs 390-429)                              *)
(***************************************************************************)
\* lib.rs 394-408: one loop over a list of images.  The iterations over a
\* list of two or more are those over its first half followed by those over
\* its second half, which keeps the evaluation shallow on lists as long as
\* the cap; the test on the first half's list, always true, makes TLC finish
\* that half before it starts the second.
RECURSIVE MergeImageLoop(_, _, _)
MergeImageLoop(imgs, merged_images, seen_image_urls) ==
  IF imgs = <<>> THEN [merged |-> merged_images, seen |-> seen_image_urls]
  ELSE IF Len(imgs) = 1
  THEN LET norm == normalize_image_url(Head(imgs).src)
       IN  IF norm \in seen_image_urls
           THEN [merged |-> merged_images, seen |-> seen_image_urls]
           ELSE [merged |-> Append(merged_images, Head(imgs)),
                 seen |-> seen_image_urls \cup {norm}]
  ELSE LET half == Len(imgs) \div 2
           first == MergeImageLoop(SubSeq(imgs, 1, half), merged_images, seen_image_urls)
       IN  IF Len(first.merged) >= 0
           THEN MergeImageLoop(SubSeq(imgs, half + 1, Len(imgs)), first.merged, first.seen)
           ELSE first

\* mutant: the server-side images are merged before the browser images
MergeImages_ServerFirst(browser_images, server_images) ==
  LET b == MergeImageLoop(server_images, <<>>, {})
      s == MergeImageLoop(browser_images, b.merged, b.seen)
  IN  Truncate(s.merged, ResultCap)

\* browser images first, then server-side images, then truncate
MergeImages(browser_images, server_images) ==
  LET b == MergeImageLoop(browser_images, <<>>, {})
      s == MergeImageLoop(server_images, b.merged, b.seen)
  IN  Truncate(s.merged, ResultCap)

\* lib.rs 414-426: one loop over a list of text blocks, split as the loop
\* over images is
RECURSIVE MergeTextLoop(_, _, _)
MergeTextLoop(blocks, merged_text, seen_text) ==
  IF blocks = <<>> THEN [merged |-> merged_text, seen |-> seen_text]
  ELSE IF Len(blocks) = 1
  THEN IF Head(blocks).text \in seen_text
       THEN [merged |-> merged_text, seen |-> seen_text]
       ELSE [merged |-> Append(merged_text, Head(blocks)),
             seen |-> seen_text \cup {Head(blocks).text}]
  ELSE LET half == Len(blocks) \div 2
           first == MergeTextLoop(SubSeq(blocks, 1, half), merged_text, seen_text)
       IN  IF Len(first.merged) >= 0
           THEN MergeTextLoop(SubSeq(blocks, half + 1, Len(blocks)), first.merged, first.seen)
           ELSE first

MergeText(browser_text, server_text) ==
  LET b == MergeTextLoop(browser_text, <<>>, {})
      s == MergeTextLoop(server_text, b.merged, b.seen)
  IN  Truncate(s.merged, ResultCap)

(***************************************************************************)
(* The pages the bounded model analyses: for each url, the document the    *)
(* HTTP fetch returns and the data the injected script sends back.         *)
(***************************************************************************)
Site == <<"h", "t", "t", "p", ":", "/", "/", "x", "/">>

Jpg == <<".", "j", "p", "g">>

\* "http://x/p1", "http://x/p2" and a string that is no absolute URL
Url1 == Site \o <<"p", "1">>

Url2 == Site \o <<"p", "2">>

UrlBad == <<"x", "/", "p">>

\* The state holds a url by name; UrlText is the string itself.
Urls == {"p1", "p2", "bad"}

UrlText(u) == IF u = "p1" THEN Url1 ELSE IF u = "p2" THEN Url2 ELSE UrlBad

\* The urls invocation i is given: one that does not parse, or a page
\* (odd invocations analyse p1, even ones p2).
UrlsFor(i) == {"bad", IF i % 2 = 1 THEN "p1" ELSE "p2"}

\* the urls url.parse() accepts
ValidUrls == {u \in Urls : ParseOk(UrlText(u))}

DataUri == DataScheme \o <<"i", "m", "g", ",", "A", "A">>

Doc1 ==
  << [kind |-> "img", alt |-> "logo", width |-> 30, height |-> 20,
      vals |-> << <<"a", "-", "3", "0", "0", "x", "2", "0", "0">> \o Jpg, DataUri >>,
      srcset |-> <<"a">> \o Jpg \o <<" ", "1", "x", ",", " ">> \o DataUri \o <<" ", "2", "x">>],
     [kind |-> "video", poster |-> DataUri],
     [kind |-> "p", nodes |-> << <<" ", "H", "i", " ">>, <<"y", "o", "u">> >>],
     [kind |-> "li", nodes |-> << <<"o", "k">> >>] >>

Doc2 ==
  << [kind |-> "source", srcset |-> <<"/", "b", "@", "2", "x">> \o Jpg],
     [kind |-> "a", href |-> <<"c", ".", "P", "N", "G">>],
     [kind |-> "meta", hasContent |-> TRUE, content |-> Site \o <<"b">> \o Jpg],
     [kind |-> "meta", hasContent |-> FALSE, content |-> <<>>],
     [kind |-> "style",
      style |-> Background \o <<":">> \o UrlOpen \o <<"'", "d", "_", "3", "8", "4">> \o Jpg
                \o <<"'", ")">>],
     [kind |-> "script",
      text |-> <<"v", "=", "\"", "/", "/", "x", "\\", "/", "e", "_", "f", "t", "_", "1", "2">>
               \o Jpg \o <<"\"">>],
     [kind |-> "h1", nodes |-> << <<"H", "i", " ", "y", "o", "u">> >>],
     [kind |-> "p", nodes |-> << <<" ", "U+00E9", "!">> >>] >>

\* the document the raw fetch of a url returns
DocOf(u) == IF u = "p1" THEN Doc1 ELSE Doc2

PageMetadata(title) == [title |-> title, description |-> "", favicon |-> ""]

\* The BrowserAnalysis the injected script (scraper.js) collects on a page:
\* colors, fonts, metadata and the images and text visible in the live DOM.
BrowserOf(u) ==
  IF u = "p1"
  THEN [colors |-> <<"#fff", "#000">>, fonts |-> <<"Arial">>,
        images |-> << ImageInfo(Site \o <<"a">> \o Jpg, "logo", 300, 200) >>,
        text_content |-> << TextBlock("P", <<"H", "i", " ", "y", "o", "u">>) >>,
        metadata |-> PageMetadata("T1")]
  ELSE [colors |-> <<"#abc">>, fonts |-> <<"Mono", "Sans">>,
        images |-> << ImageInfo(Site \o <<"b">> \o Jpg, "", 10, 10),
                      ImageInfo(Site \o <<"d">> \o Jpg, "", 0, 0) >>,
        text_content |-> <<>>,
        metadata |-> PageMetadata("T2")]

(***************************************************************************)
(* State of the running application                                        *)
(***************************************************************************)
\* the number of analyze_page invocations the model runs
NInv == 2

Inv == 1..NInv

VARIABLES
  pc,        \* pc[i]: where invocation i of analyze_page stands
  url,       \* url[i]: its url argument
  pending,   \* AppState.pending_analysis: 0 for None, i for Some(tx of i)
  txAlive,   \* the invocations whose oneshot Sender has not been dropped or used
  rxAlive,   \* the invocations whose oneshot Receiver has not been dropped
  chanVal,   \* chanVal[i]: the value sent into invocation i's channel, held as
             \* the window it came from and the page whose data it is
  windows,   \* the invocations whose "scraper-window" is open
  issued,    \* the windows whose script has invoked complete_analysis
  cbRet,     \* cbRet[i]: what complete_analysis returned to window i
  raw,       \* raw[i]: the spawned server_side_scrape task of invocation i
             \* (an Ok outcome is held as the page scraped)
  brRes,     \* brRes[i]: browser_result of invocation i
  ret,       \* ret[i]: what invocation i returned (an Ok value is held as the
             \* two data sets it was built from, see ResultOf)
  arg,       \* the input of the pure function a function-level check applies
  out        \* its output, None until it has been applied

appVars == <<pc, url, pending, txAlive, rxAlive, chanVal, windows, issued, cbRet,
             raw, brRes, ret>>

vars == <<appVars, arg, out>>

None == [tag |-> "None"]

ErrTimeout == "Analysis timed out (45s)"

ErrClosed == "Failed to receive analysis result (channel closed)"

ErrParse == "relative URL without a base"

ErrBuild == "failed to create webview window"

InitApp ==
  /\ pc = [i \in Inv |-> "idle"]
  /\ url = [i \in Inv |-> "bad"]
  /\ pending = 0
  /\ txAlive = {}
  /\ rxAlive = {}
  /\ chanVal = [i \in Inv |-> None]
  /\ windows = {}
  /\ issued = {}
  /\ cbRet = [i \in Inv |-> None]
  /\ raw = [i \in Inv |-> None]
  /\ brRes = [i \in Inv |-> None]
  /\ ret = [i \in Inv |-> None]

Init ==
  /\ InitApp
  /\ arg = None
  /\ out = None

(***************************************************************************)
(* analyze_page (lib.rs 302-444), one action per step between two points   *)
(* where another command or task can run                                   *)
(***************************************************************************)
\* lib.rs 304-310: the command is invoked with a url and closes the window
\* that carries the label, if there is one.  Invocations are numbered in
\* the order they start.
CloseExisting(i) ==
  /\ pc[i] = "idle"
  /\ \A j \in 1..(i - 1) : pc[j] # "idle"
  /\ \E u \in UrlsFor(i) : url' = [url EXCEPT ![i] = u]
  /\ windows' = {}
  /\ pc' = [pc EXCEPT ![i] = "arm"]
  /\ UNCHANGED <<pending, txAlive, rxAlive, chanVal, issued, cbRet, raw, brRes, ret, arg, out>>

\* mutant: the Sender the slot held is kept alive when the slot is overwritten
SendersAfterArm_Leak(i) == txAlive \cup {i}

\* *pending = Some(tx): the Sender the slot held is dropped
SendersAfterArm(i) == (txAlive \ {pending}) \cup {i}

\* lib.rs 312-318: a fresh channel, its Sender stored in the shared slot
Arm(i) ==
  /\ pc[i] = "arm"
  /\ pending' = i
  /\ txAlive' = SendersAfterArm(i)
  /\ rxAlive' = rxAlive \cup {i}
  /\ pc' = [pc EXCEPT ![i] = "build"]
  /\ UNCHANGED <<url, chanVal, windows, issued, cbRet, raw, brRes, ret, arg, out>>

\* an early return: the local Receiver is dropped, the error is returned
ReturnErr(i, msg) ==
  /\ ret' = [ret EXCEPT ![i] = [tag |-> "Err", msg |-> msg]]
  /\ rxAlive' = rxAlive \ {i}
  /\ pc' = [pc EXCEPT ![i] = "failed"]

\* lib.rs 322: url.parse() fails
BuildInvalidUrl(i) ==
  /\ pc[i] = "build"
  /\ url[i] \notin ValidUrls
  /\ ReturnErr(i, ErrParse)
  /\ UNCHANGED <<url, pending, txAlive, chanVal, windows, issued, cbRet, raw, brRes, arg, out>>

\* lib.rs 327: builder.build() fails (always when a window with the label
\* is open: the window manager refuses a second window with one label)
BuildFails(i) ==
  /\ pc[i] = "build"
  /\ url[i] \in ValidUrls
  /\ ReturnErr(i, ErrBuild)
  /\ UNCHANGED <<url, pending, txAlive, chanVal, windows, issued, cbRet, raw, brRes, arg, out>>

\* mutant: the window is built and the task spawned before the url is parsed
BuildAndSpawn_Unparsed(i) ==
  /\ pc[i] = "build"
  /\ windows = {}
  /\ windows' = {i}
  /\ raw' = [raw EXCEPT ![i] = [tag |-> "Running"]]
  /\ pc' = [pc EXCEPT ![i] = "wait"]
  /\ UNCHANGED <<url, pending, txAlive, rxAlive, chanVal, issued, cbRet, brRes, ret, arg, out>>

\* lib.rs 322-335: the window is built and the raw-markup task is spawned
BuildAndSpawn(i) ==
  /\ pc[i] = "build"
  /\ url[i] \in ValidUrls
  /\ windows = {}
  /\ windows' = {i}
  /\ raw' = [raw EXCEPT ![i] = [tag |-> "Running"]]
  /\ pc' = [pc EXCEPT ![i] = "wait"]
  /\ UNCHANGED <<url, pending, txAlive, rxAlive, chanVal, issued, cbRet, brRes, ret, arg, out>>

\* the await of lib.rs 338 resolves; the Receiver is consumed with it
Resolve(i, outcome) ==
  /\ pc[i] = "wait"
  /\ brRes' = [brRes EXCEPT ![i] = outcome]
  /\ rxAlive' = rxAlive \ {i}
  /\ pc' = [pc EXCEPT ![i] = "close"]
  /\ UNCHANGED <<url, pending, txAlive, chanVal, windows, issued, cbRet, raw, ret, arg, out>>

\* lib.rs 339: Ok(Ok(Ok(data))), a value was sent
WaitDelivered(i) ==
  /\ chanVal[i] # None
  /\ Resolve(i, [tag |-> "Data", from |-> chanVal[i].from, page |-> chanVal[i].page])

\* lib.rs 341: Ok(Err(_)), the Sender was dropped without sending
WaitClosed(i) ==
  /\ chanVal[i] = None
  /\ i \notin txAlive
  /\ Resolve(i, [tag |-> "Closed"])

\* mutant: the timer is looked at before the channel, so that the wait on
\* a closed channel can end as a timeout
WaitTimeout_TimerFirst(i) ==
  /\ chanVal[i] = None
  /\ Resolve(i, [tag |-> "Timeout"])

\* mutant: the wait has no timeout
WaitTimeout_Never(i) ==
  /\ FALSE
  /\ Resolve(i, [tag |-> "Timeout"])

\* lib.rs 342: Err(_), 45 s passed with the channel still open and empty
WaitTimeout(i) ==
  /\ chanVal[i] = None
  /\ i \in txAlive
  /\ Resolve(i, [tag |-> "Timeout"])

\* mutant: the messages of the two error arms are exchanged
BrowserErr_Swapped(r) == IF r.tag = "Closed" THEN ErrTimeout ELSE ErrClosed

\* the message of the error browser_result holds
BrowserErr(r) == IF r.tag = "Closed" THEN ErrClosed ELSE ErrTimeout

\* mutant: the window is left open after the wait
WindowsAfterClose_Kept(i) == windows

\* let _ = window.close();
WindowsAfterClose(i) == windows \ {i}

\* mutant: the raw-markup task is joined before browser_result? is applied
CloseAndCheck_JoinFirst(i) ==
  /\ pc[i] = "close"
  /\ raw[i].tag # "Running"
  /\ windows' = WindowsAfterClose(i)
  /\ IF brRes[i].tag = "Data"
     THEN /\ pc' = [pc EXCEPT ![i] = "join"]
          /\ ret' = ret
     ELSE /\ pc' = [pc EXCEPT ![i] = "failed"]
          /\ ret' = [ret EXCEPT ![i] = [tag |-> "Err", msg |-> BrowserErr(brRes[i])]]
  /\ UNCHANGED <<url, pending, txAlive, rxAlive, chanVal, issued, cbRet, raw, brRes, arg, out>>

\* lib.rs 345-347: the window is closed, then browser_result? returns the
\* error or goes on with the data
CloseAndCheck(i) ==
  /\ pc[i] = "close"
  /\ windows' = WindowsAfterClose(i)
  /\ IF brRes[i].tag = "Data"
     THEN /\ pc' = [pc EXCEPT ![i] = "join"]
          /\ ret' = ret
     ELSE /\ pc' = [pc EXCEPT ![i] = "failed"]
          /\ ret' = [ret EXCEPT ![i] = [tag |-> "Err", msg |-> BrowserErr(brRes[i])]]
  /\ UNCHANGED <<url, pending, txAlive, rxAlive, chanVal, issued, cbRet, raw, brRes, arg, out>>

\* what server_side_scrape returns for each url whose fetch succeeds
ScrapeOf == [u \in ValidUrls |-> server_side_scrape(DocOf(u), UrlText(u))]

\* lib.rs 350-360: the outcome of the joined task; a failed task (an error
\* or a panic) counts as two empty lists
ServerData(r) ==
  IF r.tag = "Ok" THEN ScrapeOf[r.page]
  ELSE [images |-> <<>>, text |-> <<>>]

\* mutant: the colors and the fonts are assigned to each other's field
AnalysisResult_Swapped(browser_data, server) ==
  [tag |-> "Ok",
   colors |-> browser_data.fonts,
   fonts |-> browser_data.colors,
   images |-> MergeImages(browser_data.images, server.images),
   text_content |-> MergeText(browser_data.text_content, server.text),
   metadata |-> browser_data.metadata]

\* lib.rs 437-443
AnalysisResult(browser_data, server) ==
  [tag |-> "Ok",
   colors |-> browser_data.colors,
   fonts |-> browser_data.fonts,
   images |-> MergeImages(browser_data.images, server.images),
   text_content |-> MergeText(browser_data.text_content, server.text),
   metadata |-> browser_data.metadata]

\* the outcomes a joined raw-markup task can have
RawOutcomes == {[tag |-> "Failed"]} \cup {[tag |-> "Ok", page |-> u] : u \in ValidUrls}

\* lib.rs 362-443: the result built from the rendering data of page b and the
\* raw-markup outcome s, for every pair of them
Results ==
  [b \in ValidUrls |->
     [s \in RawOutcomes |-> AnalysisResult(BrowserOf(b), ServerData(s))]]

\* An Ok value returned by analyze_page is held in ret by the two data sets
\* it was built from; these are its fields.
ResultOf(r) == Results[r.browser][r.server]

\* mutant: a failed raw-markup task is propagated with ? instead of being
\* downgraded to two empty lists
JoinAndMerge_RawFatal(i) ==
  /\ pc[i] = "join"
  /\ raw[i].tag # "Running"
  /\ IF raw[i].tag = "Ok"
     THEN /\ ret' = [ret EXCEPT ![i] = [tag |-> "Ok", browser |-> brRes[i].page, server |-> raw[i]]]
          /\ pc' = [pc EXCEPT ![i] = "done"]
     ELSE /\ ret' = [ret EXCEPT ![i] = [tag |-> "Err", msg |-> "scrape failed"]]
          /\ pc' = [pc EXCEPT ![i] = "failed"]
  /\ UNCHANGED <<url, pending, txAlive, rxAlive, chanVal, windows, issued, cbRet, raw, brRes, arg, out>>

\* lib.rs 350-444: the task is joined, the lists are merged, Ok is returned
JoinAndMerge(i) ==
  /\ pc[i] = "join"
  /\ raw[i].tag # "Running"
  /\ ret' = [ret EXCEPT ![i] = [tag |-> "Ok", browser |-> brRes[i].page, server |-> raw[i]]]
  /\ pc' = [pc EXCEPT ![i] = "done"]
  /\ UNCHANGED <<url, pending, txAlive, rxAlive, chanVal, windows, issued, cbRet, raw, brRes, arg, out>>

(***************************************************************************)
(* The spawned raw-markup task (lib.rs 333-335 running 73-300)             *)
(***************************************************************************)
RawEnds(i, outcome) ==
  /\ raw[i].tag = "Running"
  /\ raw' = [raw EXCEPT ![i] = outcome]
  /\ UNCHANGED <<pc, url, pending, txAlive, rxAlive, chanVal, windows, issued, cbRet,
                 brRes, ret, arg, out>>

\* the fetch and the parse succeed
RawOk(i) ==
  RawEnds(i, [tag |-> "Ok", page |-> url[i]])

\* The task fails: one of the ? of lib.rs 76-104 returns an Err, or the task
\* panics and the JoinHandle yields Err(JoinError).  analyze_page treats
\* the two alike (lib.rs 352-359), so the model keeps one outcome for both.
RawFails(i) == RawEnds(i, [tag |-> "Failed"])

(***************************************************************************)
(* The rendering surface and the complete_analysis command (lib.rs 60-69)  *)
(***************************************************************************)
\* The script of open window i invokes complete_analysis with the data of
\* its page, at most once.  The command runs later, as a task of its own.
ScriptInvokes(i) ==
  /\ i \in windows
  /\ i \notin issued
  /\ issued' = issued \cup {i}
  /\ UNCHANGED <<pc, url, pending, txAlive, rxAlive, chanVal, windows, cbRet, raw,
                 brRes, ret, arg, out>>

\* tx.send(Ok(data)): the value reaches the channel unless its Receiver is gone
ChanAfterSend(k, i) ==
  IF k \in rxAlive
  THEN [chanVal EXCEPT ![k] = [from |-> i, page |-> url[i]]]
  ELSE chanVal

\* mutant: the slot is read without being emptied
SlotAfterTake_Peek == pending

\* pending_analysis.lock().unwrap().take()
SlotAfterTake == 0

\* lib.rs 61-69, for the invocation made by window i
complete_analysis(i) ==
  /\ i \in issued
  /\ cbRet[i] = None
  /\ IF pending # 0
     THEN /\ pending' = SlotAfterTake
          /\ txAlive' = txAlive \ {pending}
          /\ chanVal' = ChanAfterSend(pending, i)
          /\ cbRet' = [cbRet EXCEPT ![i] = [tag |-> "Ok", slot |-> pending]]
     ELSE /\ cbRet' = [cbRet EXCEPT ![i] = [tag |-> "Err", msg |-> "No pending analysis found"]]
          /\ UNCHANGED <<pending, txAlive, chanVal>>
  /\ UNCHANGED <<pc, url, rxAlive, windows, issued, raw, brRes, ret, arg, out>>

Next ==
  \E i \in Inv :
    \/ CloseExisting(i)
    \/ Arm(i)
    \/ BuildInvalidUrl(i)
    \/ BuildFails(i)
    \/ BuildAndSpawn(i)
    \/ WaitDelivered(i)
    \/ WaitClosed(i)
    \/ WaitTimeout(i)
    \/ CloseAndCheck(i)
    \/ JoinAndMerge(i)
    \/ RawOk(i)
    \/ RawFails(i)
    \/ ScriptInvokes(i)
    \/ complete_analysis(i)

Spec == Init /\ [][Next]_vars

\* One step of the task that runs analyze_page for invocation i, from the
\* arming of the slot on.
Progress(i) ==
  \/ Arm(i)
  \/ BuildInvalidUrl(i)
  \/ BuildFails(i)
  \/ BuildAndSpawn(i)
  \/ WaitDelivered(i)
  \/ WaitClosed(i)
  \/ WaitTimeout(i)
  \/ CloseAndCheck(i)
  \/ JoinAndMerge(i)

\* The raw-markup task of invocation i ends.
RawDone(i) == RawOk(i) \/ RawFails(i)

\* The runtime does not stop while a task can run: as long as some started
\* invocation can take its next step (the timer of lib.rs 338 fires when
\* nothing else ends the wait) or some spawned task, whose request the
\* client bounds by 15 s (lib.rs 79-83), can end, one of them does.  Nothing
\* makes a page's script call back or the user start another analysis.
SpecLive ==
  Spec /\ WF_vars(\E i \in Inv : Progress(i) \/ RawDone(i))

(***************************************************************************)
(* Function-level checks: the merge and the normalizer applied to inputs   *)
(* drawn from bounded sets                                                 *)
(***************************************************************************)
\* the longest image list given to the merge
MaxList == 2

SeqsUpTo(n, S) == UNION {[1..m -> S] : m \in 0..n}

\* A and C have keys of their own; B and B2 are two resolutions of one image
ImgA == ImageInfo(Site \o <<"a">> \o Jpg, "A", 10, 10)

ImgB == ImageInfo(Site \o <<"b", "-", "3", "0", "0", "x", "2", "0", "0">> \o Jpg, "B", 300, 200)

ImgB2 == ImageInfo(Site \o <<"b", "_", "l", "a", "r", "g", "e">> \o Jpg \o <<"?", "v">>, "B2", 0, 0)

ImgC == ImageInfo(Site \o <<"c">> \o Jpg, "C", 0, 0)

MergeImgs == {ImgA, ImgB, ImgB2, ImgC}

InitMerge ==
  /\ InitApp
  /\ arg \in [browser : SeqsUpTo(MaxList, MergeImgs), server : SeqsUpTo(MaxList, MergeImgs)]
  /\ out = None

\* lib.rs 390-408 and 428 applied to the two lists
ApplyMerge ==
  /\ out = None
  /\ out' = [images |-> MergeImages(arg.browser, arg.server)]
  /\ UNCHANGED <<appVars, arg>>

NextMerge == ApplyMerge

SpecMerge == InitMerge /\ [][NextMerge]_vars

\* The lists given to the result assembly: short lists over three images, two
\* of them resolutions of one image, with text lists that repeat a block, and
\* lists of numbered images and blocks long enough for the cap to cut.
DigitSeq == <<"0", "1", "2", "3", "4", "5", "6", "7", "8", "9">>

\* the decimal digits of n
RECURSIVE Dec(_)
Dec(n) ==
  IF n < 10 THEN <<DigitSeq[n + 1]>>
  ELSE Dec(n \div 10) \o <<DigitSeq[(n % 10) + 1]>>

\* "http://x/i<k>.jpg"
NumImg(k) == ImageInfo(Site \o <<"i">> \o Dec(k) \o Jpg, "", 0, 0)

\* "http://x/i<k>-300x200.jpg", a resolution of NumImg(k)
NumImgSized(k) ==
  ImageInfo(Site \o <<"i">> \o Dec(k) \o <<"-", "3", "0", "0", "x", "2", "0", "0">> \o Jpg,
            "", 300, 200)

NumText(k) == TextBlock("P", <<"t", "e", "x", "t">> \o Dec(k))

\* the numbered images, or blocks, from a to b
NumImgs(a, b) == [k \in 1..(b - a + 1) |-> NumImg(a + k - 1)]

NumImgsSized(a, b) == [k \in 1..(b - a + 1) |-> NumImgSized(a + k - 1)]

NumTexts(a, b) == [k \in 1..(b - a + 1) |-> NumText(a + k - 1)]

TextX == TextBlock("H1", <<"H", "i", " ", "y", "o", "u">>)

TextY == TextBlock("P", <<"H", "i", " ", "y", "o", "u">>)

TextZ == TextBlock("LI", <<"B", "y", "e">>)

BrowserData(images, text_content) ==
  [colors |-> <<"#fff", "#000">>, fonts |-> <<"Arial">>, images |-> images,
   text_content |-> text_content, metadata |-> PageMetadata("T")]

ResultInput(bi, bt, si, st) ==
  [browser_data |-> BrowserData(bi, bt), server |-> [images |-> si, text |-> st]]

ShortImgs == SeqsUpTo(MaxList, {ImgB, ImgB2, ImgC})

ShortTexts == { <<>>, <<TextX, TextZ>>, <<TextZ, TextY, TextZ>> }

ShortInputs ==
  {ResultInput(bi, bt, si, st) :
     bi \in ShortImgs, si \in ShortImgs, bt \in {<<TextX, TextZ>>}, st \in ShortTexts}

LongInputs ==
  { \* 300 and 550 entries, 100 of them on both sides: 750 to keep
    ResultInput(NumImgs(1, 300), NumTexts(1, 300), NumImgs(201, 750), NumTexts(201, 750)),
    \* 501 entries on one side
    ResultInput(NumImgs(1, 501), NumTexts(1, 501), <<>>, <<>>),
    \* 250 and 500 entries, 250 of them resolutions of the other side's:
    \* exactly 500 to keep
    ResultInput(NumImgs(1, 250), NumTexts(1, 250),
                NumImgsSized(1, 250) \o NumImgs(251, 500), NumTexts(1, 500)),
    \* 400 entries twice over and 200 more: 600 to keep
    ResultInput(NumImgs(1, 400) \o NumImgsSized(1, 400), NumTexts(1, 400) \o NumTexts(1, 400),
                NumImgs(301, 600), NumTexts(301, 600)) }

InitResult ==
  /\ InitApp
  /\ arg \in ShortInputs \cup LongInputs
  /\ out = None

\* lib.rs 362-443 applied to the rendering data and the raw-markup lists
ApplyResult ==
  /\ out = None
  /\ out' = AnalysisResult(arg.browser_data, arg.server)
  /\ UNCHANGED <<appVars, arg>>

NextResult == ApplyResult

SpecResult == InitResult /\ [][NextResult]_vars

\* The urls given to the normalizer: directory, file stem, resolution
\* suffix, extension and query or fragment, put together in this order.
NormDirs == { <<>>, <<"t", "-", "1", "0", "0", "x", "1", "0", "0", "/">> }

NormStems == { <<"a">>, <<"b", "_", "3", "8", "4">> }

NoSuffix == <<>>

\* one suffix of each recognized kind
NormSuffixes ==
  { NoSuffix,
    <<"-", "3", "0", "0", "x", "2", "0", "0">>,
    <<"-", "7", "6", "8", "x", "5", "1", "2">>,
    <<"_", "f", "t", "_", "3", "8", "4">>,
    <<"-", "c", "c", "_", "f", "t", "_", "7", "6", "8">>,
    <<"_", "7", "6", "8">>,
    <<"-", "1", "5", "3", "6">>,
    <<"@", "2", "x">>,
    <<"-", "l", "a", "r", "g", "e">>,
    <<"_", "t", "h", "u", "m", "b", "n", "a", "i", "l">> }

NormExts == { Jpg, <<".", "w", "e", "b", "p">> }

NormTails == { <<>>, <<"?", "w", "=", "2">>, <<"#", "t", "o", "p">> }

NormUrl(a) == Site \o a.dir \o a.stem \o a.suffix \o a.ext \o a.tail

\* the same url without its resolution suffix, query and fragment
PlainUrl(a) == Site \o a.dir \o a.stem \o a.ext

InitNorm ==
  /\ InitApp
  /\ arg \in [dir : NormDirs, stem : NormStems, suffix : NormSuffixes,
              ext : NormExts, tail : NormTails]
  /\ out = None

\* normalize_image_url applied to the url and to its suffix-free form, and
\* the merge applied to the two as one-image lists
ApplyNormalize ==
  /\ out = None
  /\ out' = [key |-> normalize_image_url(NormUrl(arg)),
             plain |-> normalize_image_url(PlainUrl(arg)),
             images |-> MergeImages(<<ImageInfo(NormUrl(arg), "", 0, 0)>>,
                                    <<ImageInfo(PlainUrl(arg), "", 0, 0)>>)]
  /\ UNCHANGED <<appVars, arg>>

NextNorm == ApplyNormalize

SpecNorm == InitNorm /\ [][NextNorm]_vars

(***************************************************************************)
(* The claims                                                              *)
(***************************************************************************)
Returned(i) == pc[i] \in {"done", "failed"}

HasDataUri(images) == \E k \in DOMAIN images : StartsWith(images[k].src, DataScheme)

\* C1: when a later invocation has started while invocation i still awaits
\* its callback (i waits and its window has been closed under it), a
\* callback of window i is accepted by no slot but i's own, and what the
\* later invocation returns was delivered by its own window.
C1_StaleCallbackRejected ==
  \A i \in Inv : \A j \in Inv :
    (i < j /\ pc[i] = "wait" /\ i \notin windows /\ pc[j] # "idle")
    => /\ cbRet[i].tag = "Ok" => cbRet[i].slot = i
       /\ pc[j] = "done" => brRes[j].from = j

\* C2: an invocation whose wait ended by the timeout returns the timeout
\* error, a value that carries no image and no text, whatever the
\* raw-markup task did.
C2_TimeoutReturnsError ==
  \A i \in Inv :
    (brRes[i].tag = "Timeout" /\ pc[i] \in {"join", "done", "failed"})
    => /\ pc[i] = "failed"
       /\ ret[i] = [tag |-> "Err", msg |-> ErrTimeout]

\* C2 witness: a timed-out invocation has returned and its raw-markup task
\* has completed with images.
C2_Witness ==
  \E i \in Inv :
    /\ pc[i] = "failed"
    /\ brRes[i].tag = "Timeout"
    /\ raw[i].tag = "Ok"
    /\ ScrapeOf[raw[i].page].images # <<>>

\* C3: an invocation that received rendering data never fails, and when
\* its raw-markup task failed or panicked it returns Ok with the colors,
\* fonts and metadata of that data and with images and text that all come
\* from that data.
C3_RawFailureIsNotFatal ==
  \A i \in Inv :
    brRes[i].tag = "Data"
    => /\ pc[i] # "failed"
       /\ (pc[i] = "done" /\ raw[i].tag = "Failed")
          => LET d == BrowserOf(brRes[i].page)
             IN  /\ ret[i].tag = "Ok"
                 /\ ResultOf(ret[i]).colors = d.colors
                 /\ ResultOf(ret[i]).fonts = d.fonts
                 /\ ResultOf(ret[i]).metadata = d.metadata
                 /\ Range(ResultOf(ret[i]).images) \subseteq Range(d.images)
                 /\ Range(ResultOf(ret[i]).text_content) \subseteq Range(d.text_content)

\* C3 witness: an invocation is done, with images, after its raw-markup
\* task failed.
C3_Witness ==
  \E i \in Inv :
    /\ pc[i] = "done"
    /\ raw[i].tag = "Failed"
    /\ ResultOf(ret[i]).images # <<>>

\* C4: once the invocation that armed the slot last has returned, the slot
\* is empty.
C4_SlotEmptyAfterReturn ==
  pending # 0 => ~Returned(pending)

\* C5: a slot accepts at most one callback, and a slot that accepted one
\* is empty: its Sender is gone and the slot no longer holds it.
C5_FulfilledAtMostOnce ==
  /\ \A k \in Inv :
       Cardinality({i \in Inv : cbRet[i].tag = "Ok" /\ cbRet[i].slot = k}) <= 1
  /\ \A i \in Inv :
       cbRet[i].tag = "Ok" => pending # cbRet[i].slot /\ cbRet[i].slot \notin txAlive

\* C5 witness: one callback was accepted and a later one, with no slot
\* armed in between, was refused.
C5_Witness ==
  \E i \in Inv : \E j \in Inv :
    /\ cbRet[i].tag = "Ok"
    /\ cbRet[j].tag = "Err"
    /\ pending = 0

\* C6: at most one window is open and at most one Sender is alive, the one
\* the slot holds.
C6_OneSurfaceOneSlot ==
  /\ Cardinality(windows) <= 1
  /\ Cardinality(txAlive) <= 1
  /\ txAlive = IF pending = 0 THEN {} ELSE {pending}

\* C6 witness: a second invocation has armed the slot and opened its
\* window while the first still waits.
C6_Witness ==
  \E i \in Inv : \E j \in Inv :
    /\ i # j
    /\ pc[i] = "wait"
    /\ pending = j
    /\ windows = {j}

\* C7: an invocation whose wait has resolved and that has gone past the
\* close (it is about to read the raw-markup outcome, or has read it, or
\* has returned the error) has no open window.
C7_ClosedBeforeJoin ==
  \A i \in Inv :
    (pc[i] \in {"join", "done"} \/ (pc[i] = "failed" /\ brRes[i].tag # "None"))
    => i \notin windows

\* C7 witness: the rendering data arrived first: the window is closed and
\* the raw-markup task is still running.
C7_Witness ==
  \E i \in Inv : pc[i] = "join" /\ raw[i].tag = "Running" /\ i \notin windows

\* the elements of l whose key no earlier element has, in order
RECURSIVE FirstPerKey(_)
FirstPerKey(l) ==
  IF l = <<>> THEN <<>>
  ELSE LET n == Len(l)
           dup == \E k \in 1..(n - 1) :
                    normalize_image_url(l[k].src) = normalize_image_url(l[n].src)
       IN  FirstPerKey(SubSeq(l, 1, n - 1)) \o (IF dup THEN <<>> ELSE <<l[n]>>)

\* C8: the merged list is the browser list followed by the server list,
\* without the elements whose key an earlier element has, cut to the cap;
\* the elements kept are the first seen, unchanged.
C8_MergeIsFirstPerKey ==
  out # None
  => out.images = Truncate(FirstPerKey(arg.browser \o arg.server), ResultCap)

\* C8 witness: [A, B] merged with [B', C] gives [A, B, C].
C8_Witness ==
  /\ arg.browser = <<ImgA, ImgB>>
  /\ arg.server = <<ImgB2, ImgC>>
  /\ out # None
  /\ out.images = <<ImgA, ImgB, ImgC>>

\* C9: a url with a recognized resolution suffix, query or fragment gets
\* the key of the url without them, and the merge keeps one of the two.
C9_SuffixCollapses ==
  out # None => out.key = out.plain /\ Len(out.images) = 1

\* C10: no image of a returned result has a data: src.
C10_NoDataUriReturned ==
  \A i \in Inv : pc[i] = "done" => ~HasDataUri(ResultOf(ret[i]).images)

\* C11: no text of a returned result is shorter than 3 characters after
\* trimming.
C11_NoShortText ==
  \A i \in Inv :
    pc[i] = "done"
    => \A k \in DOMAIN ResultOf(ret[i]).text_content :
         Len(Trim(ResultOf(ret[i]).text_content[k].text)) >= MinTextLen

\* C12: an invocation whose url does not parse only ever fails, with the
\* parse error; it never has a window and never has a raw-markup task.
C12_InvalidUrlFailsEarly ==
  \A i \in Inv :
    (pc[i] # "idle" /\ url[i] \notin ValidUrls)
    => /\ pc[i] \in {"arm", "build", "failed"}
       /\ i \notin windows
       /\ raw[i] = None
       /\ brRes[i] = None
       /\ pc[i] = "failed" => ret[i] = [tag |-> "Err", msg |-> ErrParse]

\* C12 witness: an invocation given the unparseable url has returned.
C12_Witness ==
  \E i \in Inv :
    /\ url[i] = "bad"
    /\ pc[i] = "failed"
    /\ ret[i] = [tag |-> "Err", msg |-> ErrParse]

\* C13: the colors, fonts and metadata of a returned result are those of
\* the rendering data the invocation received, in the same order.
C13_StylePassesThrough ==
  \A i \in Inv :
    pc[i] = "done"
    => LET d == BrowserOf(brRes[i].page)
           r == ResultOf(ret[i])
       IN  /\ brRes[i].tag = "Data"
           /\ r.colors = d.colors
           /\ r.fonts = d.fonts
           /\ r.metadata = d.metadata

\* C13 witness: an invocation is done with a raw-markup pass that found
\* images and text, and its result has colors and fonts.
C13_Witness ==
  \E i \in Inv :
    /\ pc[i] = "done"
    /\ raw[i].tag = "Ok"
    /\ ScrapeOf[raw[i].page].images # <<>>
    /\ ScrapeOf[raw[i].page].text # <<>>
    /\ Len(ResultOf(ret[i]).colors) = 2
    /\ ResultOf(ret[i]).fonts # <<>>

\* the slot invocation i armed was overwritten by a later invocation before
\* any callback took it, and i has not finished its wait
Replaced(i) ==
  /\ pc[i] = "wait"
  /\ pending # i
  /\ \A w \in Inv : ~(cbRet[w].tag = "Ok" /\ cbRet[w].slot = i)

\* C14: the wait of an invocation whose slot was replaced unfulfilled ends
\* as channel closed, and an invocation whose wait ended so returns the
\* channel-closed error as its next step, having merged nothing.
C14_ReplacedWaitCloses ==
  [][\A i \in Inv :
       /\ (Replaced(i) /\ pc'[i] # "wait")
          => /\ brRes'[i] = [tag |-> "Closed"]
             /\ pc'[i] = "close"
       /\ (pc[i] = "close" /\ brRes[i].tag = "Closed" /\ pc'[i] # "close")
          => /\ pc'[i] = "failed"
             /\ ret'[i] = [tag |-> "Err", msg |-> ErrClosed]]_vars

\* C14 witness: an invocation whose slot a later invocation replaced has
\* returned the channel-closed error while that later invocation waits.
C14_Witness ==
  \E i \in Inv : \E j \in Inv :
    /\ i < j
    /\ pc[i] = "failed"
    /\ brRes[i] = [tag |-> "Closed"]
    /\ ret[i] = [tag |-> "Err", msg |-> ErrClosed]
    /\ cbRet[i] = None
    /\ pending = j
    /\ pc[j] = "wait"

\* C15: an invocation whose wait ended as channel closed or timeout can
\* take the step that returns its error, whatever its raw-markup task has
\* done: nothing it waits for stands between the end of the wait and the
\* return.
C15_ErrorDoesNotJoin ==
  \A i \in Inv :
    (pc[i] = "close" /\ brRes[i].tag \in {"Closed", "Timeout"})
    => ENABLED (/\ CloseAndCheck(i)
                /\ pc'[i] = "failed"
                /\ ret'[i] = [tag |-> "Err", msg |-> BrowserErr(brRes[i])]
                /\ raw'[i] = raw[i])

\* C15 witness: an invocation has returned the error of its wait while
\* its raw-markup task is still running.
C15_Witness ==
  \E i \in Inv :
    /\ pc[i] = "failed"
    /\ brRes[i].tag \in {"Closed", "Timeout"}
    /\ raw[i].tag = "Running"

\* no two images of the list have the same normalized key
DistinctKeys(images) ==
  \A a \in DOMAIN images : \A b \in DOMAIN images :
    a # b => normalize_image_url(images[a].src) # normalize_image_url(images[b].src)

\* C16: the image list a raw-markup task returns has no two images with
\* the same normalized key.
C16_RawPassDistinctKeys ==
  \A i \in Inv :
    (raw[i] # None /\ raw[i].tag = "Ok") => DistinctKeys(ScrapeOf[raw[i].page].images)

\* the positions of a list of keys that hold a key no earlier position holds
KeptIdx(keys) == {k \in DOMAIN keys : \A j \in 1..(k - 1) : keys[j] # keys[k]}

\* cut is the list of the elements of list at these positions, in order,
\* less those after the first cap of them
IsFirstOccurrencesCut(cut, list, keys, cap) ==
  LET F == KeptIdx(keys)
  IN  /\ Len(cut) = Min(Cardinality(F), cap)
      /\ \A k \in F :
           LET r == Cardinality({j \in F : j <= k})
           IN  r <= cap => cut[r] = list[k]

ImageKeys(images) == <<>> \o [k \in DOMAIN images |-> normalize_image_url(images[k].src)]

TextKeys(blocks) == <<>> \o [k \in DOMAIN blocks |-> blocks[k].text]

Distinct(keys) == \A a \in DOMAIN keys : \A b \in DOMAIN keys : a # b => keys[a] # keys[b]

\* C17: the image list of a result has at most 500 entries with distinct
\* normalized keys, its text list at most 500 entries with distinct texts,
\* and each is the list of first occurrences, rendering data first, less a
\* suffix that is empty unless that list is longer than 500.
C17_ResultLists ==
  out # None
  => LET imgs == arg.browser_data.images \o arg.server.images
         blocks == arg.browser_data.text_content \o arg.server.text
     IN  /\ Len(out.images) <= ResultCap
         /\ Distinct(ImageKeys(out.images))
         /\ IsFirstOccurrencesCut(out.images, imgs, ImageKeys(imgs), ResultCap)
         /\ Len(out.text_content) <= ResultCap
         /\ Distinct(TextKeys(out.text_content))
         /\ IsFirstOccurrencesCut(out.text_content, blocks, TextKeys(blocks), ResultCap)

\* C17 witness: both sides hold 750 distinct images and texts between
\* them, the result holds the first 500 of each.
C17_Witness ==
  /\ out # None
  /\ Len(arg.browser_data.images) = 300
  /\ Len(arg.server.images) = 550
  /\ Len(out.images) = ResultCap
  /\ out.images[ResultCap] = NumImg(500)
  /\ Len(out.text_content) = ResultCap

\* C18: the key of a url keeps everything before the file name: a pattern
\* that occurs in a directory segment is left where it is.
C18_OnlyTailStripped ==
  out # None => StartsWith(out.key, Site \o arg.dir)

\* C19: from some point on, every invocation that has started has
\* returned: none stays suspended forever.
C19_EveryInvocationReturns ==
  <>[](\A i \in Inv : pc[i] # "idle" => Returned(i))

\* C19 witness: an invocation has returned its result after its slot took
\* the callback of another invocation's window, while that other
\* invocation has returned too.
C19_Witness ==
  \E i \in Inv : \E j \in Inv :
    /\ i # j
    /\ pc[i] = "done"
    /\ brRes[i].from = j
    /\ Returned(j)

\* C20: a callback that complete_analysis answered with Ok put its data
\* into the channel of the invocation whose slot it took, for that
\* invocation to receive.
C20_OkMeansReceived ==
  \A w \in Inv :
    cbRet[w].tag = "Ok"
    => /\ chanVal[cbRet[w].slot] # None
       /\ chanVal[cbRet[w].slot].from = w

\* C21: no step of an invocation whose url does not parse touches an
\* in-flight invocation: a waiting invocation whose window is open and whose
\* Sender is in the slot keeps its window, the slot and the Sender.
C21_InvalidUrlLeavesInFlight ==
  [][\A i \in Inv : \A j \in Inv \ {i} :
       (/\ pc'[i] # pc[i]
        /\ url'[i] \notin ValidUrls
        /\ pc[j] = "wait" /\ j \in windows /\ pending = j /\ j \in txAlive)
       => /\ j \in windows'
          /\ pending' = j
          /\ j \in txAlive']_vars

====
